---- MODULE Spec2Model ----
(***************************************************************************)
(* Verification model of onna: the GstProducer delivery callback and its   *)
(* notification channel (src/src/producer.rs), the render loop that        *)
(* consumes it, and the frame differ (src/src/buffer.rs, src/src/main.rs). *)
(***************************************************************************)
EXTENDS Integers, Sequences, FiniteSets, TLC

\* ------------------------------------------------------------------ bounds
\* number of samples the media source delivers in one behaviour
MaxFrames == 5
\* longest cell grid handed to the differ
MaxLen == 3
\* block-image renderers have sides of 0..KittyMaxScale times 16 pixels
KittyMaxScale == 4
\* terminal size changes and resized() calls in one behaviour
MaxResizes == 3
MaxCalls == 4
\* frames the pipeline hands to the new_sample callback of main.rs
MaxMainFrames == 3

\* ------------------------------------------------------- program constants
\* sync_channel(1): the notification channel buffers one message
ChanCapTwo == 1 + 1
ChanCap == 1

\* resolutions (width, height) the caps of a sample can carry
Resolutions == { <<1, 1>>, <<1, 2>> }

VARIABLES
    \* ---- GstProducer and its new_sample closure
    pc_p,            \* position of the delivery thread inside the callback
    sample,          \* the sample pulled by the running callback
    frame_data,      \* Arc<Mutex<Vec<u8>>> contents: length and identity
    mutex,           \* state of the frame_data mutex
    current_dims,    \* (current_width, current_height) captured by the closure
    chan,            \* messages buffered in the notification channel
    rx_alive,        \* the Receiver has not been dropped
    recv,            \* GstProducer::recv, "Some" until subscribe takes it
    counter,         \* FrameCounter {dropped, not_dropped}
    \* ---- render loop
    pc_c,            \* position of the render thread
    renderer,        \* dimensions of the current renderer
    view,            \* what the MutexGuard returned by frame() shows
    \* ---- history variables of the producer/consumer protocol
    hist,
    \* ---- differ
    curr, prev,      \* the two grids handed to assign_diff
    data,            \* Differ::data
    d_pc             \* "input" | "done" | "grouped" | "panic"

VARIABLES
    \* ---- DefaultRenderer<Rgb> and its Differ
    r_dims,          \* (width, height)
    color_buf,       \* the grid being rendered
    prev_buf,        \* the grid rendered before
    differ,          \* Differ::data of the renderer's state
    output,          \* what the last render_frame wrote to the sink
    r_pc,            \* "new" | "consumed" | "rendered"
    strides,         \* that output, one sequence per render_stride call
    term,            \* the terminal the sink is attached to
    r_hist           \* history of consume: the grid before, the inputs

VARIABLES
    \* ---- KittyRenderer
    kitty,           \* {width, height, encoded}
    k_out,           \* the escapes the last render_frame wrote
    k_pc             \* "new" | "consumed" | "rendered"

VARIABLES
    \* ---- terminal and the two ResizeWatchers
    term_size,       \* (cols, rows) the terminal has now
    sig_flag,        \* SignalWatcher::flag
    poll_memo,       \* PollWatcher {width, height}
    w_hist           \* history of size changes and resized() calls

\* the binary of main.rs: main thread, new_sample callback, interrupt handler
VARIABLES
    m_pc,            \* position of the main thread
    args_kitty,      \* Args::kitty
    handler_set,     \* ctrlc::set_handler has returned Ok
    playing,         \* the pipeline is in the Playing state
    out_buf,         \* bytes held by the BufWriter inside HideCursor
    stdout_s,        \* what has reached standard output
    stderr_s,        \* what has reached standard error
    m_frame,         \* frame_ref: 0 is the empty Vec, n the n-th frame
    m_frame_lock,    \* holder of the frame_ref mutex
    m_width,         \* Renderer::width, 0 until the callback learns the caps
    m_renderer_lock, \* holder of the renderer mutex
    m_notify,        \* messages queued in sync_channel(1)
    cb_pc,           \* position of the new_sample callback
    cb_count,        \* samples handed to the callback so far
    check_width,     \* the callback's check_width flag
    m_counter,       \* dropped_frames_counter and frame_counter
    m_exit,          \* how the process ended, "running" until then
    m_hist           \* history of the render loop

vars_p == << pc_p, sample, frame_data, mutex, current_dims, chan, rx_alive,
             recv, counter, pc_c, renderer, view, hist >>
vars_d == << curr, prev, data, d_pc >>
vars_r == << r_dims, color_buf, prev_buf, differ, output, r_pc, strides,
             term, r_hist >>
vars_k == << kitty, k_out, k_pc >>
vars_w == << term_size, sig_flag, poll_memo, w_hist >>
main_vars == << m_pc, args_kitty, handler_set, playing >>
io_vars == << out_buf, stdout_s, stderr_s >>
shared_vars == << m_frame, m_frame_lock, m_width, m_renderer_lock, m_notify >>
cb_vars == << cb_pc, cb_count, check_width, m_counter >>
vars_m == << main_vars, io_vars, shared_vars, cb_vars, m_exit, m_hist >>
vars == << vars_p, vars_d, vars_r, vars_k, vars_w, vars_m >>

\* what an action of one component leaves alone
others_p == << vars_d, vars_r, vars_k, vars_w, vars_m >>
others_d == << vars_p, vars_r, vars_k, vars_w, vars_m >>
others_r == << vars_p, vars_d, vars_k, vars_w, vars_m >>
others_k == << vars_p, vars_d, vars_r, vars_w, vars_m >>
others_w == << vars_p, vars_d, vars_r, vars_k, vars_m >>
others_m == << vars_p, vars_d, vars_r, vars_k, vars_w >>

\* ------------------------------------------------------------ ProducerMessage
Initialize(w, h) == [type |-> "Initialize", width |-> w, height |-> h]
FrameReady == [type |-> "FrameReady"]

NoSample == [width |-> 0, height |-> 0, seq |-> 0]

\* bytes of a sample's buffer: 4 bytes per pixel, identified by the sample
MapToVec(s) == [len |-> 4 * s.width * s.height, seq |-> s.seq]

\* *data = map.to_vec();
WriteFrameIfEmpty(old, s) == IF old.len = 0 THEN MapToVec(s) ELSE old
WriteFrame(old, s) == MapToVec(s)

\* if width != current_width || height != current_height
ResolutionChangedTypo(w, h, dims) == w # dims[1] \/ h # dims[1]
ResolutionChangedBoth(w, h, dims) == w # dims[1] /\ h # dims[2]
ResolutionChanged(w, h, dims) == w # dims[1] \/ h # dims[2]

\* the channel buffer has no room
IsFullAtTwo(ch) == Len(ch) >= ChanCap + 1
IsFull(ch) == Len(ch) >= ChanCap

\* let (mut current_width, mut current_height) = (0, 0)
InitialDimsOne == <<1, 1>>
InitialDims == <<0, 0>>

\* the frame_data guard at the end of the block that writes the frame
KeepGuard(m) == m
DropGuard(m) == "free"

\* counter.dropped.fetch_add(1); return Ok
CountDroppedFallThrough(c) ==
    [dropped |-> c.dropped + 1, not_dropped |-> c.not_dropped + 1]
CountDropped(c) == [c EXCEPT !.dropped = @ + 1]
\* counter.not_dropped.fetch_add(1)
CountNotDropped(c) == [c EXCEPT !.not_dropped = @ + 1]

\* self.recv.take(): what the Option holds afterwards
KeepReceiver(opt) == opt
TakeReceiver(opt) == "None"

\* Renderer::from_dims
from_dims(w, h) == [width |-> w, height |-> h]
\* Renderer::verify_input: assert_eq!(data.len() as u32, area * 4)
verify_input(r, buf) == buf.len = (r.width * r.height) * 4

IdleDiffer ==
    /\ curr = << >> /\ prev = << >> /\ data = << >> /\ d_pc = "off"

IdleRenderer ==
    /\ r_dims = <<0, 0>> /\ color_buf = << >> /\ prev_buf = << >>
    /\ differ = << >> /\ output = << >> /\ r_pc = "off"
    /\ strides = << >>
    /\ term = [screen |-> << >>, cur |-> 0, pending |-> FALSE,
               color |-> <<0, 0, 0>>]
    /\ r_hist = [before |-> << >>, input |-> << >>, prev_input |-> << >>]

InitHist ==
    [ delivered   |-> 0,        \* callbacks started
      completed   |-> 0,        \* callbacks returned (Ok or Err)
      failed      |-> 0,        \* callbacks returned Err
      last_written|-> [len |-> 0, seq |-> 0],
      prev_res    |-> <<0, 0>>, \* resolution of the previous sample
      changed     |-> FALSE,    \* the running sample differs from it
      last_dropped|-> 0,        \* seq of the frame last counted dropped
      recv_res    |-> <<0, 0>>, \* resolution behind the last received message
      res_changes |-> 0,        \* samples whose resolution differs from it
      init_enq    |-> 0,        \* Initialize messages put on the channel
      init_recv   |-> 0,        \* Initialize messages received
      chan_res    |-> << >>,    \* resolution of the frame behind each message
      sub_calls   |-> 0,        \* calls of subscribe
      handed_out  |-> 0,        \* receivers subscribe returned
      first_recv  |-> "none",   \* type of the first message received
      sent_init   |-> FALSE,    \* the running callback sent Initialize
      win_clean   |-> TRUE,     \* no receive since the running callback began
      win_k       |-> 0,        \* callbacks run wholly since the last receive
      win_enq     |-> 0,        \* ... of which enqueued FrameReady
      win_drop    |-> 0 ]       \* ... of which were counted dropped

InitProducer ==
    /\ pc_p = "idle"
    /\ sample = NoSample
    /\ frame_data = [len |-> 0, seq |-> 0]
    /\ mutex = "free"
    /\ current_dims = InitialDims
    /\ chan = << >>
    /\ rx_alive = TRUE
    /\ recv = "Some"
    /\ counter = [dropped |-> 0, not_dropped |-> 0]
    /\ pc_c = "start"
    /\ renderer = from_dims(0, 0)
    /\ view = [len |-> 0, seq |-> 0]
    /\ hist = InitHist

IdleKitty ==
    /\ kitty = [width |-> 0, height |-> 0, encoded |-> [len |-> 0, frame |-> 0]]
    /\ k_out = << >> /\ k_pc = "off"

InitWatchHist ==
    [ changes    |-> 0,      \* size changes so far
      calls      |-> 0,      \* resized() calls so far, both watchers
      sig_true   |-> 0,      \* SignalWatcher calls that returned true
      poll_true  |-> 0,      \* PollWatcher calls that returned true
      sig_quiet  |-> FALSE,  \* no change between the last two signal calls
      poll_quiet |-> FALSE,  \* no change between the last two poll calls
      sig_last   |-> FALSE,  \* result of the last SignalWatcher call
      poll_last  |-> FALSE,  \* result of the last PollWatcher call
      sig_dirty  |-> FALSE,  \* the size changed since the last signal call
      poll_dirty |-> FALSE ] \* the size changed since the last poll call

IdleWatch ==
    /\ term_size = <<0, 0>> /\ sig_flag = FALSE /\ poll_memo = <<0, 0>>
    /\ w_hist = InitWatchHist

InitMainHist ==
    [ timeouts     |-> 0,    \* receives that timed out
      renders      |-> 0,    \* frames rendered
      late_renders |-> 0 ]   \* frames rendered after a timeout

\* main before its first statement that touches the sink
StartMain(use_kitty) ==
    /\ m_pc = "start" /\ args_kitty = use_kitty
    /\ handler_set = FALSE /\ playing = FALSE
    /\ out_buf = << >> /\ stdout_s = << >> /\ stderr_s = << >>
    /\ m_frame = 0 /\ m_frame_lock = "free"
    /\ m_width = 0 /\ m_renderer_lock = "free"
    /\ m_notify = 0
    /\ cb_pc = "idle" /\ cb_count = 0 /\ check_width = TRUE
    /\ m_counter = [dropped |-> 0, not_dropped |-> 0]
    /\ m_exit = "running"
    /\ m_hist = InitMainHist

IdleMain == StartMain(FALSE)

Init ==
    InitProducer /\ IdleDiffer /\ IdleRenderer /\ IdleKitty /\ IdleWatch /\ IdleMain

\* ------------------------------------------------- the new_sample closure
\* sink.pull_sample(); sample.buffer(); buffer.map_readable()
PullSample ==
    /\ pc_p = "idle"
    /\ hist.delivered < MaxFrames
    /\ \E res \in Resolutions :
         /\ sample' = [width |-> res[1], height |-> res[2],
                       seq |-> hist.delivered + 1]
         /\ hist' = [hist EXCEPT
               !.delivered = @ + 1,
               !.win_clean = TRUE,
               !.sent_init = FALSE,
               !.prev_res = res,
               !.changed = (res # hist.prev_res),
               !.res_changes = IF res # hist.prev_res THEN @ + 1 ELSE @]
    /\ pc_p' = "lock"
    /\ UNCHANGED << frame_data, mutex, current_dims, chan, rx_alive, counter,
                    pc_c, renderer, view >>
    /\ UNCHANGED << recv, others_p >>

\* frame_data.lock().map_err(|_| FlowError::Error)?
LockFrameData ==
    /\ pc_p = "lock"
    /\ \/ /\ mutex = "free"
          /\ mutex' = "producer"
          /\ pc_p' = "write"
          /\ hist' = hist
       \/ /\ mutex = "poisoned"
          /\ mutex' = mutex
          /\ pc_p' = "error"
          /\ hist' = [hist EXCEPT !.completed = @ + 1, !.failed = @ + 1]
    /\ UNCHANGED << sample, frame_data, current_dims, chan, rx_alive, counter,
                    pc_c, renderer, view >>
    /\ UNCHANGED << recv, others_p >>

\* *data = map.to_vec(); the guard is dropped at the end of the block
WriteFrameData ==
    /\ pc_p = "write"
    /\ frame_data' = WriteFrame(frame_data, sample)
    /\ mutex' = DropGuard(mutex)
    /\ pc_p' = "caps"
    /\ hist' = [hist EXCEPT !.last_written = MapToVec(sample)]
    /\ UNCHANGED << sample, current_dims, chan, rx_alive, counter,
                    pc_c, renderer, view >>
    /\ UNCHANGED << recv, others_p >>

\* read width and height from the caps and compare with the last-seen ones
CheckResolution ==
    /\ pc_p = "caps"
    /\ pc_p' = IF ResolutionChanged(sample.width, sample.height, current_dims)
               THEN "send_init" ELSE "try_send"
    /\ UNCHANGED << sample, frame_data, mutex, current_dims, chan, rx_alive,
                    counter, pc_c, renderer, view, hist >>
    /\ UNCHANGED << recv, others_p >>

\* notify.send(Initialize{width, height}).map_err(..)?; blocks while full
SendInitialize ==
    /\ pc_p = "send_init"
    /\ \/ /\ rx_alive
          /\ ~IsFull(chan)
          /\ chan' = Append(chan, Initialize(sample.width, sample.height))
          /\ current_dims' = << sample.width, sample.height >>
          /\ pc_p' = "try_send"
          /\ hist' = [hist EXCEPT
                !.init_enq = @ + 1,
                !.sent_init = TRUE,
                !.chan_res = Append(@, << sample.width, sample.height >>)]
       \/ /\ ~rx_alive
          /\ pc_p' = "error"
          /\ hist' = [hist EXCEPT !.completed = @ + 1, !.failed = @ + 1]
          /\ UNCHANGED << chan, current_dims >>
    /\ UNCHANGED << sample, frame_data, mutex, rx_alive, counter,
                    pc_c, renderer, view >>
    /\ UNCHANGED << recv, others_p >>

\* match notify.try_send(FrameReady)
TrySendFrameReady ==
    /\ pc_p = "try_send"
    /\ \/ /\ ~rx_alive                      \* Err(Disconnected)
          /\ pc_p' = "error"
          /\ hist' = [hist EXCEPT !.completed = @ + 1, !.failed = @ + 1]
          /\ chan' = chan
       \/ /\ rx_alive /\ IsFull(chan)       \* Err(Full)
          /\ pc_p' = "count_dropped"
          /\ UNCHANGED << chan, hist >>
       \/ /\ rx_alive /\ ~IsFull(chan)      \* Ok
          /\ chan' = Append(chan, FrameReady)
          /\ pc_p' = "count_ok"
          /\ hist' = [hist EXCEPT
                !.chan_res = Append(@, << sample.width, sample.height >>),
                !.win_enq = IF hist.win_clean THEN @ + 1 ELSE @]
    /\ UNCHANGED << sample, frame_data, mutex, current_dims, rx_alive, counter,
                    pc_c, renderer, view >>
    /\ UNCHANGED << recv, others_p >>

\* counter.dropped.fetch_add(1, SeqCst); return Ok(FlowSuccess::Ok)
ReturnDropped ==
    /\ pc_p = "count_dropped"
    /\ counter' = CountDropped(counter)
    /\ pc_p' = "idle"
    /\ hist' = [hist EXCEPT
          !.completed = @ + 1,
          !.last_dropped = sample.seq,
          !.win_k = IF hist.win_clean THEN @ + 1 ELSE @,
          !.win_drop = IF hist.win_clean THEN @ + 1 ELSE @]
    /\ UNCHANGED << sample, frame_data, mutex, current_dims, chan, rx_alive,
                    pc_c, renderer, view >>
    /\ UNCHANGED << recv, others_p >>

\* counter.not_dropped.fetch_add(1, SeqCst); Ok(FlowSuccess::Ok)
ReturnDelivered ==
    /\ pc_p = "count_ok"
    /\ counter' = CountNotDropped(counter)
    /\ pc_p' = "idle"
    /\ hist' = [hist EXCEPT
          !.completed = @ + 1,
          !.win_k = IF hist.win_clean THEN @ + 1 ELSE @]
    /\ UNCHANGED << sample, frame_data, mutex, current_dims, chan, rx_alive,
                    pc_c, renderer, view >>
    /\ UNCHANGED << recv, others_p >>

\* ------------------------------------------------------------ render loop
\* GstProducer::subscribe: self.recv.take().expect(..); the caller is the
\* thread that owns the producer, and a panic unwinds it
Subscribe ==
    /\ pc_c \in {"start", "recv"}
    /\ recv' = TakeReceiver(recv)
    /\ IF recv = "Some"
       THEN /\ pc_c' = "recv"
            /\ hist' = [hist EXCEPT !.sub_calls = @ + 1, !.handed_out = @ + 1]
            /\ UNCHANGED << rx_alive, chan >>
       ELSE /\ pc_c' = "panic"
            /\ rx_alive' = FALSE
            /\ chan' = << >>
            /\ hist' = [hist EXCEPT !.sub_calls = @ + 1, !.chan_res = << >>]
    /\ UNCHANGED << pc_p, sample, frame_data, mutex, current_dims, counter,
                    renderer, view >>
    /\ UNCHANGED others_p

\* the receive of the loop head returns a message
Receive ==
    /\ pc_c = "recv"
    /\ rx_alive
    /\ chan # << >>
    /\ chan' = Tail(chan)
    /\ IF Head(chan).type = "Initialize"
       THEN /\ renderer' = from_dims(Head(chan).width, Head(chan).height)
            /\ pc_c' = "recv"
       ELSE /\ renderer' = renderer
            /\ pc_c' = "frame"
    /\ hist' = [hist EXCEPT
          !.chan_res = Tail(@),
          !.recv_res = Head(hist.chan_res),
          !.init_recv = IF Head(chan).type = "Initialize" THEN @ + 1 ELSE @,
          !.first_recv = IF @ = "none" THEN Head(chan).type ELSE @,
          !.win_clean = FALSE,
          !.win_k = 0, !.win_enq = 0, !.win_drop = 0]
    /\ UNCHANGED << pc_p, sample, frame_data, mutex, current_dims, rx_alive,
                    counter, view >>
    /\ UNCHANGED << recv, others_p >>

\* the receive times out with no message: the loop ends, the Receiver drops
ReceiveTimeout ==
    /\ pc_c = "recv"
    /\ rx_alive
    /\ chan = << >>
    /\ pc_c' = "done"
    /\ rx_alive' = FALSE
    /\ UNCHANGED << pc_p, sample, frame_data, mutex, current_dims, chan,
                    counter, renderer, view, hist >>
    /\ UNCHANGED << recv, others_p >>

\* Producer::frame(): Some(self.frame_data.lock().unwrap())
Frame ==
    /\ pc_c = "frame"
    /\ mutex = "free"
    /\ mutex' = "consumer"
    /\ view' = frame_data
    /\ pc_c' = "verify"
    /\ UNCHANGED << pc_p, sample, frame_data, current_dims, chan, rx_alive,
                    counter, renderer, hist >>
    /\ UNCHANGED << recv, others_p >>

\* verify_input and consume under the guard; the assertion may panic
VerifyAndConsume ==
    /\ pc_c = "verify"
    /\ IF verify_input(renderer, view)
       THEN /\ mutex' = "free"
            /\ pc_c' = "render"
            /\ UNCHANGED << rx_alive, chan, hist >>
       ELSE /\ mutex' = "poisoned"
            /\ pc_c' = "panic"
            /\ rx_alive' = FALSE
            /\ chan' = << >>
            /\ hist' = [hist EXCEPT !.chan_res = << >>]
    /\ UNCHANGED << pc_p, sample, frame_data, current_dims, counter,
                    renderer, view >>
    /\ UNCHANGED << recv, others_p >>

\* render_frame writes to the sink, then the loop waits again
Render ==
    /\ pc_c = "render"
    /\ pc_c' = "recv"
    /\ UNCHANGED << pc_p, sample, frame_data, mutex, current_dims, chan,
                    rx_alive, counter, renderer, view, hist >>
    /\ UNCHANGED << recv, others_p >>

Next ==
    \/ PullSample
    \/ LockFrameData
    \/ WriteFrameData
    \/ CheckResolution
    \/ SendInitialize
    \/ TrySendFrameReady
    \/ ReturnDropped
    \/ ReturnDelivered
    \/ Subscribe
    \/ Receive
    \/ ReceiveTimeout
    \/ Frame
    \/ VerifyAndConsume
    \/ Render

\* the steps of one invocation of the delivery callback
DeliveryStep ==
    \/ LockFrameData
    \/ WriteFrameData
    \/ CheckResolution
    \/ SendInitialize
    \/ TrySendFrameReady
    \/ ReturnDropped
    \/ ReturnDelivered

\* the callback is waiting in notify.send because the channel is full
BlockedOnChannel == pc_p = "send_init" /\ rx_alive /\ IsFull(chan)

\* ------------------------------------------------------------------ claims

C2_FrameMatchesRenderer ==
    pc_c = "verify" => view.len = 4 * renderer.width * renderer.height

\* C3 (as stated): an invocation of the callback that has the frame lock can
\* always take its next step without a receive by the consumer.
C3_NeverWaits ==
    pc_p \in {"write", "caps", "send_init", "try_send",
              "count_dropped", "count_ok"} => ENABLED DeliveryStep
\* C3 (amended): a callback whose frame has the resolution of the previous
\* frame never waits for a receive; only the Initialize send of a
\* resolution-changing frame waits while the channel is full.
C3_SameResolutionNeverWaits ==
    /\ (pc_p \in {"write", "caps", "send_init", "try_send",
                  "count_dropped", "count_ok"} /\ ~hist.changed)
          => ENABLED DeliveryStep
    /\ BlockedOnChannel => hist.changed
    /\ pc_p = "try_send" => ENABLED TrySendFrameReady
C3_Witness ==
    /\ pc_p = "try_send"
    /\ ~hist.changed
    /\ rx_alive
    /\ IsFull(chan)
    /\ hist.delivered >= 2

\* C4: the view returned by frame() equals the buffer written by the last
\* callback that completed its write, also when that frame was dropped.
C4_FrameIsLatest ==
    pc_c = "verify" => (view = hist.last_written /\ view = frame_data)
C4_Witness ==
    /\ pc_c = "verify"
    /\ view.seq >= 2
    /\ view.seq = hist.last_dropped

\* number of Initialize messages buffered in the channel
InitializeInChan ==
    Cardinality({ i \in 1..Len(chan) : chan[i].type = "Initialize" })

\* resolution announced by the last Initialize ahead of position i of the
\* channel, or the consumer's renderer when none is buffered ahead of it
AnnouncedBefore(i) ==
    LET before == { j \in 1..(i - 1) : chan[j].type = "Initialize" }
    IN  IF before = {}
        THEN << renderer.width, renderer.height >>
        ELSE LET j == CHOOSE k \in before : \A m \in before : m <= k
             IN  << chan[j].width, chan[j].height >>

\* C5: Initialize is enqueued for exactly the resolution-changing frames,
\* before their FrameReady is attempted, is not lost while the receiver
\* lives, and every FrameReady follows the Initialize of its resolution.
C5_InitializePrecedes ==
    /\ pc_p \in {"try_send", "count_dropped", "count_ok", "idle"}
          => hist.init_enq = hist.res_changes
    /\ rx_alive => hist.init_enq = hist.init_recv + InitializeInChan
    /\ \A i \in 1..Len(chan) :
          chan[i].type = "FrameReady" => AnnouncedBefore(i) = hist.chan_res[i]
    /\ pc_c = "frame" => << renderer.width, renderer.height >> = hist.recv_res
C5_Witness ==
    /\ pc_c = "frame"
    /\ hist.recv_res = <<1, 2>>
    /\ hist.res_changes >= 2
    /\ hist.delivered > hist.res_changes

\* C6: the channel holds at most one message, and of the callbacks that ran
\* with no receive since the first of them began, at most one enqueued
\* FrameReady and all the others were counted dropped.
C6_BackpressureDrops ==
    /\ Len(chan) <= 1
    /\ hist.win_enq <= 1
    /\ hist.win_drop >= hist.win_k - 1
    /\ hist.win_drop + hist.win_enq >= hist.win_k
C6_Witness ==
    /\ hist.win_k = 3
    /\ hist.win_enq = 1
    /\ hist.win_drop = 2
    /\ hist.completed = 4

\* ------------------------------------------------------------------ differ
\* cells [r, g, b, chr] a grid can hold
Cells == { <<0, 0, 0, 0>>, <<255, 0, 0, 36>>, <<0, 0, 255, 46>> }
Grids == UNION { [1..n -> Cells] : n \in 0..MaxLen }

\* results of the scan that are not an index
NONE == -1
PANIC == -2

\* while self.prev.get(self.idx)? == self.current.get(self.idx)? { idx += 1 }
\* yields the first changed index, or NONE when either get() is out of range
RECURSIVE SkipUnchangedOffByOne(_, _, _)
SkipUnchangedOffByOne(current, previous, idx) ==
    IF idx > Len(previous) \/ idx > Len(current) THEN NONE
    ELSE IF idx >= Len(previous) \/ idx >= Len(current) THEN PANIC
    ELSE IF previous[idx + 1] = current[idx + 1]
         THEN SkipUnchangedOffByOne(current, previous, idx + 1)
         ELSE idx
RECURSIVE SkipUnchanged(_, _, _)
SkipUnchanged(current, previous, idx) ==
    IF idx >= Len(previous) THEN NONE
    ELSE IF idx >= Len(current) THEN NONE
    ELSE IF previous[idx + 1] = current[idx + 1]
         THEN SkipUnchanged(current, previous, idx + 1)
         ELSE idx

\* loop { match current.get(idx) {
\*     Some(i) if i == item && i != &self.prev[idx] => idx += 1, _ => return } }
\* yields the index the run ends at; self.prev[idx] panics out of range
RECURSIVE ExtendRunSameItem(_, _, _, _)
ExtendRunSameItem(current, previous, item, idx) ==
    IF idx < Len(current) /\ current[idx + 1] = item
    THEN ExtendRunSameItem(current, previous, item, idx + 1)
    ELSE idx
ExtendRunOne(current, previous, item, idx) ==
    IF idx < Len(current) THEN idx + 1 ELSE idx
RECURSIVE ExtendRun(_, _, _, _)
ExtendRun(current, previous, item, idx) ==
    IF idx < Len(current) /\ current[idx + 1] = item
    THEN IF idx >= Len(previous) THEN PANIC
         ELSE IF current[idx + 1] # previous[idx + 1]
              THEN ExtendRun(current, previous, item, idx + 1)
              ELSE idx
    ELSE idx

NoRun(i) == [some |-> FALSE, panic |-> FALSE, start |-> 0, end |-> 0,
             item |-> <<0, 0, 0, 0>>, idx |-> i]
PanicRun(i) == [NoRun(i) EXCEPT !.panic = TRUE]

\* BufferDiffIter::next from position idx: Some((start..idx', item)) or None
BufferDiffIter_next_PrevValue(current, previous, idx) ==
    LET start == SkipUnchanged(current, previous, idx) IN
    IF start = NONE THEN NoRun(Len(current))
    ELSE IF start = PANIC THEN PanicRun(idx)
    ELSE LET item == current[start + 1]
             end  == ExtendRun(current, previous, item, start)
         IN  IF end = PANIC THEN PanicRun(start)
             ELSE [some |-> TRUE, panic |-> FALSE, start |-> start,
                   end |-> end, item |-> previous[start + 1], idx |-> end]
BufferDiffIter_next(current, previous, idx) ==
    LET start == SkipUnchanged(current, previous, idx) IN
    IF start = NONE THEN NoRun(Len(current))
    ELSE IF start = PANIC THEN PanicRun(idx)
    ELSE LET item == current[start + 1]
             end  == ExtendRun(current, previous, item, start)
         IN  IF end = PANIC THEN PanicRun(start)
             ELSE [some |-> TRUE, panic |-> FALSE, start |-> start,
                   end |-> end, item |-> item, idx |-> end]

\* Colorize::from_rgb of Rgb: the triple itself
from_rgb(rgb) == rgb

\* the closure of assign_diff: (pos, [r, g, b, chr]) -> (pos, from_rgb, chr)
MapRun(r) ==
    [start |-> r.start, end |-> r.end,
     color |-> from_rgb(<< r.item[1], r.item[2], r.item[3] >>),
     chr |-> r.item[4]]

\* self.data.extend(diff_iter): call next until it yields None
RECURSIVE Extend(_, _, _, _)
Extend(acc, current, previous, idx) ==
    LET r == BufferDiffIter_next(current, previous, idx) IN
    IF r.panic THEN [panic |-> TRUE, data |-> acc]
    ELSE IF ~r.some THEN [panic |-> FALSE, data |-> acc]
    ELSE Extend(Append(acc, MapRun(r)), current, previous, r.idx)

\* BufferDiffIter::new: assert_eq!(prev.len(), current.len())
BufferDiffIter_new_AtMost(current, previous) == Len(previous) <= Len(current)
BufferDiffIter_new(current, previous) == Len(previous) = Len(current)

\* the comparator of main.rs: Less when the styles are equal, else Greater
CompareLess(a, b) == << a.color, a.chr >> = << b.color, b.chr >>

\* sort_unstable_by on a slice of at most 20 elements: insertion sort that
\* moves v[i] left while the comparator answers Less
RECURSIVE InsertTailLost(_, _, _)
InsertTailLost(v, tmp, j) ==
    IF j > 1 /\ CompareLess(tmp, v[j - 1])
    THEN InsertTailLost([v EXCEPT ![j] = v[j - 1]], tmp, j - 1)
    ELSE v
RECURSIVE InsertTail(_, _, _)
InsertTail(v, tmp, j) ==
    IF j > 1 /\ CompareLess(tmp, v[j - 1])
    THEN InsertTail([v EXCEPT ![j] = v[j - 1]], tmp, j - 1)
    ELSE [v EXCEPT ![j] = tmp]
RECURSIVE SortUnstableBy(_, _)
SortUnstableBy(v, i) ==
    IF i > Len(v) THEN v ELSE SortUnstableBy(InsertTail(v, v[i], i), i + 1)

InitDiff ==
    /\ InitProducer
    /\ IdleWatch
    /\ IdleMain
    /\ IdleRenderer
    /\ IdleKitty
    /\ curr \in Grids
    /\ prev \in Grids
    /\ data = << >>
    /\ d_pc = "input"

\* Differ::assign_diff of buffer.rs: clear, then extend with the runs
AssignDiff ==
    /\ d_pc = "input"
    /\ IF ~BufferDiffIter_new(curr, prev)
       THEN d_pc' = "panic" /\ data' = << >>
       ELSE LET r == Extend(<< >>, curr, prev, 0) IN
            /\ data' = r.data
            /\ d_pc' = IF r.panic THEN "panic" ELSE "done"
    /\ UNCHANGED << curr, prev >>
    /\ UNCHANGED others_d

\* Differ::assign_diff of main.rs: the same, then sort_unstable_by
AssignDiffSorted ==
    /\ d_pc = "input"
    /\ IF ~BufferDiffIter_new(curr, prev)
       THEN d_pc' = "panic" /\ data' = << >>
       ELSE LET r == Extend(<< >>, curr, prev, 0) IN
            IF r.panic
            THEN d_pc' = "panic" /\ data' = r.data
            ELSE d_pc' = "grouped" /\ data' = SortUnstableBy(r.data, 2)
    /\ UNCHANGED << curr, prev >>
    /\ UNCHANGED others_d

NextDiff ==
    \/ AssignDiff
    \/ AssignDiffSorted

SpecDiff == InitDiff /\ [][NextDiff]_vars

\* the differ returned normally
Differed == d_pc \in {"done", "grouped"}
\* index idx lies in run r
InRun(r, idx) == r.start <= idx /\ idx < r.end
\* indices at which the two grids differ
ChangedIndices == { i \in 0..(Len(curr) - 1) : curr[i + 1] # prev[i + 1] }

\* C7: the runs cover exactly the changed indices: every index of a run is
\* changed, and every changed index lies in exactly one run.
C7_CoverageDisjoint ==
    Differed =>
      /\ \A k \in 1..Len(data) : \A idx \in data[k].start..(data[k].end - 1) :
            idx \in ChangedIndices
      /\ \A idx \in ChangedIndices :
            Cardinality({ k \in 1..Len(data) : InRun(data[k], idx) }) = 1
C7_Witness ==
    /\ Differed
    /\ Len(data) = 2
    /\ Cardinality(ChangedIndices) = 2
    /\ Len(curr) = 3
    /\ curr[2] = prev[2]

\* C8: grids that differ at exactly one index i yield exactly one run, with
\* range [i, i+1) and the current value at i.
C8_SingleChange ==
    (Differed /\ Cardinality(ChangedIndices) = 1) =>
      LET i == CHOOSE x \in ChangedIndices : TRUE IN
      /\ Len(data) = 1
      /\ data[1].start = i
      /\ data[1].end = i + 1
      /\ << data[1].color[1], data[1].color[2], data[1].color[3],
            data[1].chr >> = curr[i + 1]
C8_Witness ==
    /\ Differed
    /\ ChangedIndices = {1}
    /\ Len(curr) = 3
    /\ Len(data) = 1

\* C9: diff(A, A) is empty for every grid A, the empty grid included, and
\* the scan ends without an out-of-range read.
C9_UnchangedEmpty ==
    (d_pc # "input" /\ curr = prev) => (Differed /\ data = << >>)
C9_Witness ==
    /\ Differed
    /\ curr = prev
    /\ Len(curr) >= 2
    /\ data = << >>

\* C10: after assign_diff, runs of equal (color, glyph) style are adjacent:
\* no run of another style lies between two runs of the same style.
Style(r) == << r.color, r.chr >>
C10_EqualStylesAdjacent ==
    Differed =>
      \A i, j, k \in 1..Len(data) :
          (i < j /\ j < k /\ Style(data[i]) = Style(data[k]))
              => Style(data[j]) = Style(data[i])

\* the runs BufferDiffIter yields for the two grids, in iteration order
IterRuns == Extend(<< >>, curr, prev, 0).data
\* number of positions of sequence s that hold x
Occurrences(s, x) == Cardinality({ k \in 1..Len(s) : s[k] = x })

\* C11: the runs held after assign_diff are the runs BufferDiffIter yields,
\* each as often as it was yielded: grouping only reorders.
C11_GroupingPermutes ==
    Differed =>
      /\ Len(data) = Len(IterRuns)
      /\ \A k \in 1..Len(IterRuns) :
            Occurrences(data, IterRuns[k]) = Occurrences(IterRuns, IterRuns[k])
C11_Witness ==
    /\ d_pc = "grouped"
    /\ Len(data) = 2
    /\ data # IterRuns

\* C19: BufferDiffIter::new panics exactly when the two grids differ in
\* length, and then no run is produced.
C19_LengthContract ==
    d_pc # "input" =>
      /\ (d_pc = "panic") <=> (Len(curr) # Len(prev))
      /\ d_pc = "panic" => data = << >>
C19_Witness ==
    /\ d_pc = "panic"
    /\ Len(curr) = 3
    /\ Len(prev) = 2

\* C20: before grouping the runs are non-empty, in strictly increasing
\* disjoint ranges, hold their value in every covered cell of current, and
\* two runs that touch have different values.
C20_RunsMaximal ==
    d_pc = "done" =>
      /\ \A k \in 1..Len(data) :
            /\ data[k].start < data[k].end
            /\ data[k].end <= Len(curr)
            /\ \A idx \in data[k].start..(data[k].end - 1) :
                  curr[idx + 1] = << data[k].color[1], data[k].color[2],
                                     data[k].color[3], data[k].chr >>
      /\ \A k \in 1..(Len(data) - 1) :
            /\ data[k].end <= data[k + 1].start
            /\ data[k].end = data[k + 1].start
                  => Style(data[k]) # Style(data[k + 1])
C20_Witness ==
    /\ d_pc = "done"
    /\ Len(data) = 2
    /\ data[1].end - data[1].start = 2
    /\ data[1].end = data[2].start

\* ------------------------------------------------------ DefaultRenderer<Rgb>
\* the gradient ramp, as bytes
ASCII_CHARS ==
    << 32, 46, 96, 34, 44, 58, 59, 73, 108, 33, 105, 62, 60, 126, 43, 95,
       45, 63, 93, 91, 125, 123, 49, 41, 40, 124, 92, 47, 116, 102, 106, 114,
       120, 117, 118, 99, 122, 88, 89, 85, 74, 67, 81, 79, 90, 109, 119, 113,
       112, 100, 98, 107, 104, 97, 111, 42, 35, 87, 38, 56, 37, 66, 64, 36 >>

\* dimensions of the renderers and the RGBx pixels of the frames considered
RDims == { <<2, 2>>, <<3, 1>>, <<1, 2>>, <<1, 1>> }
RPixels == { <<0, 0, 0, 0>>, <<255, 0, 0, 0>> }
\* the one-cell renderer is fed pixels over the whole range of a channel
Channels == { 0, 100, 255 }
WidePixels == { <<r, g, b, 0>> : r \in Channels, g \in Channels, b \in Channels }
RFrames(dims) ==
    [1..(dims[1] * dims[2]) -> IF dims = <<1, 1>> THEN WidePixels ELSE RPixels]

\* ((r as u32) * 3 + (b as u32) + ((g as u32) << 2)) >> 3, in u32: the sum
\* of three widened bytes is far below 2^32
LuminanceU32Shift3(pixel) ==
    (pixel[1] * 3 + pixel[3] + pixel[2] * 8) \div 8
LuminanceU32(pixel) ==
    (pixel[1] * 3 + pixel[3] + pixel[2] * 4) \div 8

\* (.. >> 3) as u8
luminance(pixel) == LuminanceU32(pixel) % 256

\* ((c / 255.).powf(0.5) * 255.).min(255) as u8: the integer part of
\* sqrt(255 * c)
GammaChannel(c) ==
    LET n == 255 * c
        k == CHOOSE x \in 0..255 : x * x <= n /\ (x + 1) * (x + 1) > n
    IN  IF k > 255 THEN 255 ELSE k
gamma_correct(pixel) ==
    << GammaChannel(pixel[1]), GammaChannel(pixel[2]),
       GammaChannel(pixel[3]), pixel[4] >>

\* the body of consume's loop for one pixel
ConsumePixel(pixel) ==
    LET lum == luminance(pixel)
        index == lum \div 4
    IN  gamma_correct(<< pixel[1], pixel[2], pixel[3],
                         ASCII_CHARS[index + 1] >>)

\* the sink's bytes, one token per escape, glyph or newline
CursorTo(line, column) == [t |-> "cursor", line |-> line, column |-> column]
Activate(color) == [t |-> "color", color |-> color]
Glyph(chr) == [t |-> "glyph", chr |-> chr]
Newline == [t |-> "nl"]

\* if col == 0 && !is_first { write "\n" }
WrapsNever(col, is_first) == FALSE
WrapsAlways(col, is_first) == col = 0
Wraps(col, is_first) == col = 0 /\ ~is_first

\* for i in pos.clone() { ...; output.write_all(&[*chr]) }
RECURSIVE WriteGlyphs(_, _, _, _, _)
WriteGlyphs(i, end, chr, is_first, width) ==
    IF i >= end THEN << >>
    ELSE (IF Wraps(i % width, is_first) THEN << Newline >> ELSE << >>)
         \o << Glyph(chr) >>
         \o WriteGlyphs(i + 1, end, chr, FALSE, width)

\* render_stride: what one run writes, given prev_end and prev_color
render_stride_NoOrigin(i, run, chr, prev_end, prev_color, width) ==
    (IF run.start # prev_end
     THEN << CursorTo(run.start \div width, run.start % width) >>
     ELSE << >>)
    \o (IF run.color # prev_color \/ i = 0
        THEN << Activate(run.color) >>
        ELSE << >>)
    \o WriteGlyphs(run.start, run.end, chr, TRUE, width)
render_stride_NoFirst(i, run, chr, prev_end, prev_color, width) ==
    (IF run.start # prev_end \/ prev_end = 0
     THEN << CursorTo(run.start \div width, run.start % width) >>
     ELSE << >>)
    \o (IF run.color # prev_color
        THEN << Activate(run.color) >>
        ELSE << >>)
    \o WriteGlyphs(run.start, run.end, chr, TRUE, width)
render_stride(i, run, chr, prev_end, prev_color, width) ==
    (IF run.start # prev_end \/ prev_end = 0
     THEN << CursorTo(run.start \div width, run.start % width) >>
     ELSE << >>)
    \o (IF run.color # prev_color \/ i = 0
        THEN << Activate(run.color) >>
        ELSE << >>)
    \o WriteGlyphs(run.start, run.end, chr, TRUE, width)

\* the loop of render_frame over state.data(), i counting from 0
RECURSIVE RenderRuns(_, _, _, _, _)
RenderRuns(runs, i, prev_end, prev_color, width) ==
    IF i >= Len(runs) THEN << >>
    ELSE LET run == runs[i + 1] IN
         render_stride(i, run, run.chr, prev_end, prev_color, width)
         \o RenderRuns(runs, i + 1, run.end, run.color, width)

\* the same loop, keeping what each render_stride call wrote apart
RECURSIVE Strides(_, _, _, _, _)
Strides(runs, i, prev_end, prev_color, width) ==
    IF i >= Len(runs) THEN << >>
    ELSE LET run == runs[i + 1] IN
         << render_stride(i, run, run.chr, prev_end, prev_color, width) >>
         \o Strides(runs, i + 1, run.end, run.color, width)

\* Colorize::default() of Rgb
DefaultColor == <<0, 0, 0>>

\* std::mem::swap(&mut self.color_buf, &mut self.prev_buf): the pair after it
NotSwapped(a, b) == << a, b >>
Swapped(a, b) == << b, a >>

\* a cell [r, g, b, chr] as the terminal shows it: colour token and glyph
CellOf(cell) == << from_rgb(<< cell[1], cell[2], cell[3] >>), cell[4] >>

\* the colour a terminal draws in before any activation
TermDefault == << -1, -1, -1 >>

\* a terminal showing the grid, cursor at the origin
TermShowing(grid) ==
    [screen |-> [i \in 1..Len(grid) |-> CellOf(grid[i])],
     cur |-> 0, pending |-> FALSE, color |-> TermDefault]

\* one token arriving at the terminal: the cursor escape moves to the
\* 0-based (line, column); a glyph is drawn in the active colour and moves
\* the cursor on; after a glyph in the last column the next glyph or newline
\* continues at column 0 of the next row; any other newline moves to the
\* start of the next row
TermStep(tm, tok, width) ==
    IF tok.t = "cursor"
    THEN [tm EXCEPT !.cur = tok.line * width + tok.column, !.pending = FALSE]
    ELSE IF tok.t = "color"
    THEN [tm EXCEPT !.color = tok.color]
    ELSE IF tok.t = "glyph"
    THEN [tm EXCEPT
            !.screen = IF tm.cur < Len(tm.screen)
                       THEN [@ EXCEPT ![tm.cur + 1] = << tm.color, tok.chr >>]
                       ELSE @,
            !.cur = @ + 1,
            !.pending = ((tm.cur + 1) % width = 0)]
    ELSE IF tm.pending
    THEN [tm EXCEPT !.pending = FALSE]
    ELSE [tm EXCEPT !.cur = ((@ \div width) + 1) * width]

RECURSIVE TermApply(_, _, _, _)
TermApply(tm, toks, k, width) ==
    IF k > Len(toks) THEN tm
    ELSE TermApply(TermStep(tm, toks[k], width), toks, k + 1, width)

InitRender ==
    /\ InitProducer
    /\ IdleWatch
    /\ IdleMain
    /\ IdleDiffer
    /\ IdleKitty
    /\ r_dims \in RDims
    /\ color_buf = [i \in 1..(r_dims[1] * r_dims[2]) |-> <<0, 0, 0, 0>>]
    /\ prev_buf = color_buf
    /\ differ = << >>
    /\ output = << >>
    /\ strides = << >>
    /\ term = TermShowing(color_buf)
    /\ r_hist = [before |-> << >>, input |-> << >>, prev_input |-> << >>]
    /\ r_pc = "new"

\* DefaultRenderer::consume (impl_fg): swap the grids, transform the pixels
Consume ==
    /\ r_pc \in {"new", "rendered"}
    /\ \E pixels \in RFrames(r_dims) :
         LET sw == Swapped(color_buf, prev_buf) IN
         /\ prev_buf' = sw[2]
         /\ color_buf' = [i \in 1..Len(sw[1]) |->
                             IF i <= Len(pixels) THEN ConsumePixel(pixels[i])
                             ELSE sw[1][i]]
         /\ r_hist' = [before |-> color_buf, input |-> pixels,
                       prev_input |-> r_hist.input]
    /\ r_pc' = "consumed"
    /\ UNCHANGED << r_dims, differ, output, strides, term >>
    /\ UNCHANGED others_r

\* DefaultRenderer::render_frame (impl_fg): assign_diff, then one
\* render_stride per run, then flush
RenderFrame ==
    /\ r_pc = "consumed"
    /\ LET runs == Extend(<< >>, color_buf, prev_buf, 0).data IN
         /\ differ' = runs
         /\ output' = RenderRuns(runs, 0, 0, DefaultColor, r_dims[1])
         /\ strides' = Strides(runs, 0, 0, DefaultColor, r_dims[1])
         /\ term' = TermApply(term, output', 1, r_dims[1])
    /\ r_pc' = "rendered"
    /\ UNCHANGED << r_dims, color_buf, prev_buf, r_hist >>
    /\ UNCHANGED others_r

NextRender ==
    \/ Consume
    \/ RenderFrame

SpecRender == InitRender /\ [][NextRender]_vars

\* number of tokens of kind t written by the last render_frame
Written(t) == Cardinality({ k \in 1..Len(output) : output[k].t = t })
\* cells in which the two grids of the renderer differ
ChangedCells ==
    { i \in 0..(Len(color_buf) - 1) : color_buf[i + 1] # prev_buf[i + 1] }

\* C12: when exactly one cell differs between the two grids, render_frame
\* writes one cursor escape, one colour escape, one glyph and no newline,
\* whatever the cell's index.
C12_SingleCellOutput ==
    (r_pc = "rendered" /\ Cardinality(ChangedCells) = 1) =>
      /\ Written("cursor") = 1
      /\ Written("color") = 1
      /\ Written("glyph") = 1
      /\ Written("nl") = 0
      /\ Len(differ) = 1
      /\ differ[1].end = differ[1].start + 1
C12_Witness ==
    /\ r_pc = "rendered"
    /\ r_dims = <<2, 2>>
    /\ ChangedCells = {2}
    /\ Len(output) = 3

\* ------------------------------------------------------------ KittyRenderer
\* chunks(4096)
ChunkSize == 4096

KittyDims ==
    { << 16 * i, 16 * j >> : i \in 0..KittyMaxScale, j \in 0..KittyMaxScale }
\* identities of the frames handed to consume
KittyFrames == {1, 2}

\* fn ceiling_div(x, y) = (x + y - 1) / y
ceiling_div(x, y) == (x + y - 1) \div y

\* KittyRenderer::from_dims: encoded is a zeroed String of the encoded length
Kitty_from_dims(width, height) ==
    LET len == width * height * 4
        base64_encoded_len == 4 * ceiling_div(len, 3)
    IN  [width |-> width, height |-> height,
         encoded |-> [len |-> base64_encoded_len, frame |-> 0]]

\* Base64::encode(slice, encoded): the padded encoding of n bytes fills
\* 4 * ceil(n / 3) bytes of the buffer
Base64_encode(n, frame) == [len |-> 4 * ceiling_div(n, 3), frame |-> frame]

\* let m = iter.peek().is_some() as u8
MoreFollowsIfFull(lo, hi, len) == IF hi - lo = ChunkSize THEN 1 ELSE 0
MoreFollows(lo, hi, len) == IF hi < len THEN 1 ELSE 0

\* the while-let loop over encoded.as_bytes().chunks(4096): one escape per
\* chunk, carrying the bytes [lo, hi) of the encoded buffer
RECURSIVE WriteChunks(_, _)
WriteChunks(k, lo) ==
    IF lo >= k.encoded.len THEN << >>
    ELSE LET hi == IF lo + ChunkSize < k.encoded.len
                   THEN lo + ChunkSize ELSE k.encoded.len
         IN  << [s |-> k.width, v |-> k.height,
                 m |-> MoreFollows(lo, hi, k.encoded.len),
                 lo |-> lo, hi |-> hi, frame |-> k.encoded.frame] >>
             \o WriteChunks(k, hi)

InitKitty ==
    /\ InitProducer
    /\ IdleWatch
    /\ IdleMain
    /\ IdleDiffer
    /\ IdleRenderer
    /\ \E dims \in KittyDims : kitty = Kitty_from_dims(dims[1], dims[2])
    /\ k_out = << >>
    /\ k_pc = "new"

\* KittyRenderer::consume: encode the whole frame into the scratch buffer
KittyConsume ==
    /\ k_pc \in {"new", "rendered"}
    /\ \E f \in KittyFrames :
         kitty' = [kitty EXCEPT
                     !.encoded = Base64_encode(kitty.width * kitty.height * 4, f)]
    /\ k_pc' = "consumed"
    /\ UNCHANGED k_out
    /\ UNCHANGED others_k

\* KittyRenderer::render_frame
KittyRenderFrame ==
    /\ k_pc = "consumed"
    /\ k_out' = WriteChunks(kitty, 0)
    /\ k_pc' = "rendered"
    /\ UNCHANGED kitty
    /\ UNCHANGED others_k

NextKitty ==
    \/ KittyConsume
    \/ KittyRenderFrame

SpecKitty == InitKitty /\ [][NextKitty]_vars

\* C13: render_frame writes ceil(L/4096) escapes of at most 4096 payload
\* bytes each; the payloads in order are the encoded payload; every escape
\* but the last carries m=1 and the last m=0.
C13_Chunking ==
    k_pc = "rendered" =>
      LET L == kitty.encoded.len
          n == Len(k_out)
      IN  /\ n * 4096 >= L
          /\ (n - 1) * 4096 < L \/ (n = 0 /\ L = 0)
          /\ \A k \in 1..n :
                /\ k_out[k].lo < k_out[k].hi
                /\ k_out[k].hi - k_out[k].lo <= 4096
                /\ k_out[k].frame = kitty.encoded.frame
                /\ k_out[k].lo = (IF k = 1 THEN 0 ELSE k_out[k - 1].hi)
                /\ k_out[k].m = (IF k = n THEN 0 ELSE 1)
          /\ n > 0 => k_out[n].hi = L
C13_Witness ==
    /\ k_pc = "rendered"
    /\ Len(k_out) = 2
    /\ k_out[1].m = 1
    /\ k_out[2].hi - k_out[2].lo < 4096

\* ------------------------------------------------------------ ResizeWatcher
\* sizes termsize::get() can report
TermSizes == { <<80, 24>>, <<100, 24>>, <<80, 30>> }

\* self.flag.swap(false, Relaxed): the value the flag holds afterwards
LoadFlag(flag) == flag
SwapFlag(flag) == FALSE

\* PollWatcher::resized: changed, and the memo it stores
PollChanged(memo, size) == size[1] # memo[1] \/ size[2] # memo[2]
PollUpdate(memo, size) == size

InitWatch ==
    /\ InitProducer
    /\ IdleMain
    /\ IdleDiffer
    /\ IdleRenderer
    /\ IdleKitty
    /\ term_size \in TermSizes
    /\ sig_flag = FALSE             \* SignalWatcher::new
    /\ poll_memo = term_size        \* PollWatcher::new
    /\ w_hist = InitWatchHist

\* the terminal is resized; SIGWINCH runs the registered handler, which
\* stores true in the flag
TermResize ==
    /\ w_hist.changes < MaxResizes
    /\ \E size \in TermSizes \ {term_size} : term_size' = size
    /\ sig_flag' = TRUE
    /\ w_hist' = [w_hist EXCEPT !.changes = @ + 1,
                                !.sig_dirty = TRUE, !.poll_dirty = TRUE]
    /\ UNCHANGED poll_memo
    /\ UNCHANGED others_w

\* SignalWatcher::resized
SignalResized ==
    /\ w_hist.calls < MaxCalls
    /\ sig_flag' = SwapFlag(sig_flag)
    /\ w_hist' = [w_hist EXCEPT
          !.calls = @ + 1,
          !.sig_last = sig_flag,
          !.sig_true = IF sig_flag THEN @ + 1 ELSE @,
          !.sig_quiet = ~w_hist.sig_dirty,
          !.sig_dirty = FALSE]
    /\ UNCHANGED << term_size, poll_memo >>
    /\ UNCHANGED others_w

\* PollWatcher::resized
PollResized ==
    /\ w_hist.calls < MaxCalls
    /\ poll_memo' = PollUpdate(poll_memo, term_size)
    /\ w_hist' = [w_hist EXCEPT
          !.calls = @ + 1,
          !.poll_last = PollChanged(poll_memo, term_size),
          !.poll_true = IF PollChanged(poll_memo, term_size) THEN @ + 1 ELSE @,
          !.poll_quiet = ~w_hist.poll_dirty,
          !.poll_dirty = FALSE]
    /\ UNCHANGED << term_size, sig_flag >>
    /\ UNCHANGED others_w

NextWatch ==
    \/ TermResize
    \/ SignalResized
    \/ PollResized

SpecWatch == InitWatch /\ [][NextWatch]_vars

\* C15: for both watchers, the calls of resized() that returned true are
\* never more than the size changes, and a call with no size change since
\* the watcher's previous call returns false.
C15_EdgeTriggered ==
    /\ w_hist.sig_true <= w_hist.changes
    /\ w_hist.poll_true <= w_hist.changes
    /\ w_hist.sig_quiet => ~w_hist.sig_last
    /\ w_hist.poll_quiet => ~w_hist.poll_last
C15_Witness ==
    /\ w_hist.changes = 2
    /\ w_hist.sig_true = 1
    /\ w_hist.poll_true = 1
    /\ w_hist.sig_quiet /\ w_hist.poll_quiet
    /\ w_hist.calls = 4

\* C17: subscribe returns the receiver on its first call only; every later
\* call panics and hands out no second receiver.
C17_SingleSubscriber ==
    /\ hist.handed_out <= 1
    /\ hist.handed_out = (IF hist.sub_calls = 0 THEN 0 ELSE 1)
    /\ recv = (IF hist.sub_calls = 0 THEN "Some" ELSE "None")
    /\ hist.sub_calls >= 2 => (pc_c = "panic" /\ hist.sub_calls = 2)
C17_Witness ==
    /\ hist.sub_calls = 2
    /\ hist.handed_out = 1
    /\ pc_c = "panic"
    /\ hist.completed >= 1

\* ------------------------------------------------------------ main.rs binary
\* hide_cursor / show_cursor / print_dropped_frames / eprintln!, as what
\* they write
HideSeq == "hide"
ShowSeq == "show"
ClearSeq == "clear"
FrameBytes == "frame"
StatsText == "stats"
ErrorText == "error"

\* HideCursor::new: hide_cursor into the writer
HideCursor_new(buf) == Append(buf, HideSeq)

\* Drop for HideCursor, then Drop for the BufWriter inside it: the show
\* sequence goes into the buffer, and the buffer is flushed to stdout
HideCursor_drop(sink, buf) == sink \o Append(buf, ShowSeq)

\* std::process::exit: no destructor runs, the BufWriter is not flushed
ProcessExit(sink, buf) == sink

\* `while wait.recv_timeout(..).is_ok()`: where the loop goes after a receive
AfterRecvRetry(r) == IF r = "Ok" THEN "lock_renderer" ELSE "recv"
AfterRecv(r) == IF r = "Ok" THEN "lock_renderer" ELSE "after_loop"

\* the frame guard at the time render I/O starts: do_run closes the scope of
\* frame_data before render_frame, the kitty loop keeps frame_data alive
\* across render_meow
FrameLockAtRender(use_kitty) == IF use_kitty THEN "main" ELSE "free"

Running == m_exit = "running"

InitMain ==
    /\ InitProducer
    /\ IdleDiffer
    /\ IdleRenderer
    /\ IdleKitty
    /\ IdleWatch
    /\ \E use_kitty \in BOOLEAN : StartMain(use_kitty)

\* `?` in main or do_run: the function returns Err, its locals are dropped
ReturnErr ==
    /\ stdout_s' = HideCursor_drop(stdout_s, out_buf)
    /\ out_buf' = << >>
    /\ m_exit' = "err"
    /\ m_pc' = "ended"

\* HideCursor::new(BufWriter::with_capacity(..))
CreateSink ==
    /\ Running /\ m_pc = "start"
    /\ out_buf' = HideCursor_new(out_buf)
    /\ m_pc' = "clear"
    /\ UNCHANGED << args_kitty, handler_set, playing, stdout_s, stderr_s,
                    shared_vars, cb_vars, m_exit, m_hist >>
    /\ UNCHANGED others_m

\* write!(out, "\x1b[2J")?: the buffer has room, nothing reaches stdout
ClearScreen ==
    /\ Running /\ m_pc = "clear"
    /\ out_buf' = Append(out_buf, ClearSeq)
    /\ m_pc' = "build"
    /\ UNCHANGED << args_kitty, handler_set, playing, stdout_s, stderr_s,
                    shared_vars, cb_vars, m_exit, m_hist >>
    /\ UNCHANGED others_m

\* gst::init()?; gst::parse_launch(..)?; sync_channel(1); the mutexes
BuildPipeline ==
    /\ Running /\ m_pc = "build"
    /\ \E ok \in BOOLEAN :
         IF ok
         THEN /\ m_pc' = "set_handler"
              /\ UNCHANGED << io_vars, m_exit >>
         ELSE /\ ReturnErr
              /\ UNCHANGED stderr_s
    /\ UNCHANGED << args_kitty, handler_set, playing, shared_vars, cb_vars,
                    m_hist >>
    /\ UNCHANGED others_m

\* ctrlc::set_handler(..)?
SetHandler ==
    /\ Running /\ m_pc = "set_handler"
    /\ \E ok \in BOOLEAN :
         IF ok
         THEN /\ m_pc' = "set_callbacks"
              /\ handler_set' = TRUE
              /\ UNCHANGED << io_vars, m_exit >>
         ELSE /\ ReturnErr
              /\ UNCHANGED << stderr_s, handler_set >>
    /\ UNCHANGED << args_kitty, playing, shared_vars, cb_vars, m_hist >>
    /\ UNCHANGED others_m

\* app_sink.set_callbacks(..)
SetCallbacks ==
    /\ Running /\ m_pc = "set_callbacks"
    /\ m_pc' = "set_state"
    /\ UNCHANGED << args_kitty, handler_set, playing, io_vars, shared_vars,
                    cb_vars, m_exit, m_hist >>
    /\ UNCHANGED others_m

\* source.set_state(Playing); on Err: eprintln!, std::process::exit(1)
SetStatePlaying ==
    /\ Running /\ m_pc = "set_state"
    /\ \E ok \in BOOLEAN :
         IF ok
         THEN /\ m_pc' = "wait_state"
              /\ playing' = TRUE
              /\ UNCHANGED << io_vars, m_exit >>
         ELSE /\ stderr_s' = Append(stderr_s, ErrorText)
              /\ stdout_s' = ProcessExit(stdout_s, out_buf)
              /\ m_exit' = "exit_set_state"
              /\ m_pc' = "ended"
              /\ UNCHANGED << out_buf, playing >>
    /\ UNCHANGED << args_kitty, handler_set, shared_vars, cb_vars, m_hist >>
    /\ UNCHANGED others_m

\* source.state(timeout).0?
WaitState ==
    /\ Running /\ m_pc = "wait_state"
    /\ \E ok \in BOOLEAN :
         IF ok
         THEN /\ m_pc' = IF args_kitty THEN "recv" ELSE "create_differ"
              /\ UNCHANGED << io_vars, m_exit >>
         ELSE /\ ReturnErr
              /\ UNCHANGED stderr_s
    /\ UNCHANGED << args_kitty, handler_set, playing, shared_vars, cb_vars,
                    m_hist >>
    /\ UNCHANGED others_m

\* do_run: renderer.lock().unwrap(), create_differ, guard dropped
CreateDiffer ==
    /\ Running /\ m_pc = "create_differ"
    /\ m_renderer_lock = "free"
    /\ m_pc' = "recv"
    /\ UNCHANGED << args_kitty, handler_set, playing, io_vars, shared_vars,
                    cb_vars, m_exit, m_hist >>
    /\ UNCHANGED others_m

\* wait.recv_timeout(3 s): a queued message is received; with none queued
\* the three seconds can run out
RecvTimeout ==
    /\ Running /\ m_pc = "recv"
    /\ \E r \in {"Ok", "Timeout"} :
         /\ r = "Ok" <=> m_notify > 0
         /\ m_pc' = AfterRecv(r)
         /\ m_notify' = IF r = "Ok" THEN m_notify - 1 ELSE m_notify
         /\ m_hist' = IF r = "Ok" THEN m_hist
                      ELSE [m_hist EXCEPT !.timeouts = IF @ < 2 THEN @ + 1 ELSE @]
    /\ UNCHANGED << args_kitty, handler_set, playing, io_vars, m_frame,
                    m_frame_lock, m_width, m_renderer_lock, cb_vars, m_exit >>
    /\ UNCHANGED others_m

\* renderer.lock().unwrap()
LockRenderer ==
    /\ Running /\ m_pc = "lock_renderer"
    /\ m_renderer_lock = "free"
    /\ m_renderer_lock' = "main"
    /\ m_pc' = "lock_frame"
    /\ UNCHANGED << args_kitty, handler_set, playing, io_vars, m_frame,
                    m_frame_lock, m_width, m_notify, cb_vars, m_exit, m_hist >>
    /\ UNCHANGED others_m

\* frame_ref_clone.lock().unwrap(); `continue` on an empty frame drops both
\* guards; process_frame in do_run; the guard's scope ends before
\* render_frame in do_run and after render_meow in the kitty loop
LockFrame ==
    /\ Running /\ m_pc = "lock_frame"
    /\ m_frame_lock = "free"
    /\ IF m_frame = 0
       THEN /\ m_pc' = "recv"
            /\ m_renderer_lock' = "free"
            /\ UNCHANGED m_frame_lock
       ELSE /\ m_pc' = "render"
            /\ m_frame_lock' = FrameLockAtRender(args_kitty)
            /\ UNCHANGED m_renderer_lock
    /\ UNCHANGED << args_kitty, handler_set, playing, io_vars, m_frame,
                    m_width, m_notify, cb_vars, m_exit, m_hist >>
    /\ UNCHANGED others_m

\* render_frame(out, differ)? / render_meow(frame_data, out)?: the writes and
\* the flush, then the end of the iteration drops the guards still held
RenderIO ==
    /\ Running /\ m_pc = "render"
    /\ \E ok \in BOOLEAN :
         IF ok
         THEN /\ stdout_s' = stdout_s \o Append(out_buf, FrameBytes)
              /\ out_buf' = << >>
              /\ m_pc' = "recv"
              /\ UNCHANGED m_exit
         ELSE ReturnErr
    /\ m_frame_lock' = "free"
    /\ m_renderer_lock' = "free"
    /\ m_hist' = [m_hist EXCEPT !.renders = @ + 1,
                                !.late_renders =
                                    IF m_hist.timeouts > 0 THEN @ + 1 ELSE @]
    /\ UNCHANGED << args_kitty, handler_set, playing, stderr_s, m_frame,
                    m_width, m_notify, cb_vars >>
    /\ UNCHANGED others_m

\* after the loop: do_run returns Ok and drops out before the statistics
\* are printed; in the kitty path out is dropped when main returns Ok
ReturnOk ==
    /\ Running /\ m_pc = "after_loop"
    /\ stdout_s' = IF args_kitty
                   THEN HideCursor_drop(Append(stdout_s, StatsText), out_buf)
                   ELSE Append(HideCursor_drop(stdout_s, out_buf), StatsText)
    /\ out_buf' = << >>
    /\ m_exit' = "ok"
    /\ m_pc' = "ended"
    /\ UNCHANGED << args_kitty, handler_set, playing, stderr_s, shared_vars,
                    cb_vars, m_hist >>
    /\ UNCHANGED others_m

\* SIGINT: the ctrlc handler writes show_cursor and the statistics to stderr
\* and calls std::process::exit(1); before set_handler the signal's default
\* action ends the process
Interrupt ==
    /\ Running /\ m_pc # "start"
    /\ IF handler_set
       THEN /\ stderr_s' = stderr_s \o << ShowSeq, StatsText >>
            /\ m_exit' = "exit_ctrlc"
       ELSE /\ m_exit' = "killed"
            /\ UNCHANGED stderr_s
    /\ stdout_s' = ProcessExit(stdout_s, out_buf)
    /\ m_pc' = "ended"
    /\ UNCHANGED << args_kitty, handler_set, playing, out_buf, shared_vars,
                    cb_vars, m_hist >>
    /\ UNCHANGED others_m

\* new_sample: pull_sample, buffer, map_readable, each with an Err return
CbPull ==
    /\ Running /\ playing
    /\ cb_pc = "idle" /\ cb_count < MaxMainFrames
    /\ cb_count' = cb_count + 1
    /\ \E ok \in BOOLEAN : cb_pc' = IF ok THEN "lock_frame" ELSE "stopped"
    /\ UNCHANGED << main_vars, io_vars, shared_vars, check_width, m_counter,
                    m_exit, m_hist >>
    /\ UNCHANGED others_m

\* frame_ref.lock(): no thread panics with the guard, the lock is never
\* poisoned
CbLockFrame ==
    /\ Running /\ cb_pc = "lock_frame"
    /\ m_frame_lock = "free"
    /\ m_frame_lock' = "cb"
    /\ cb_pc' = "write"
    /\ UNCHANGED << main_vars, io_vars, m_frame, m_width, m_renderer_lock,
                    m_notify, cb_count, check_width, m_counter, m_exit,
                    m_hist >>
    /\ UNCHANGED others_m

\* *data = map.to_vec() / data.copy_from_slice(&map), guard dropped; the caps
\* fix the frame size, the lengths agree
CbWrite ==
    /\ Running /\ cb_pc = "write"
    /\ m_frame' = cb_count
    /\ m_frame_lock' = "free"
    /\ cb_pc' = "check"
    /\ UNCHANGED << main_vars, io_vars, m_width, m_renderer_lock, m_notify,
                    cb_count, check_width, m_counter, m_exit, m_hist >>
    /\ UNCHANGED others_m

\* if check_width: renderer.lock().unwrap(), and with width == 0 the caps are
\* read (Err returns) and the renderer replaced
CbCheckWidth ==
    /\ Running /\ cb_pc = "check"
    /\ IF ~check_width
       THEN /\ cb_pc' = "send"
            /\ UNCHANGED << m_width, check_width >>
       ELSE /\ m_renderer_lock = "free"
            /\ IF m_width # 0
               THEN /\ cb_pc' = "send"
                    /\ UNCHANGED << m_width, check_width >>
               ELSE \E ok \in BOOLEAN :
                      IF ok
                      THEN /\ m_width' = 1
                           /\ check_width' = FALSE
                           /\ cb_pc' = "send"
                      ELSE /\ cb_pc' = "stopped"
                           /\ UNCHANGED << m_width, check_width >>
    /\ UNCHANGED << main_vars, io_vars, m_frame, m_frame_lock,
                    m_renderer_lock, m_notify, cb_count, m_counter, m_exit,
                    m_hist >>
    /\ UNCHANGED others_m

\* notify.try_send(()): Full counts a dropped frame, Ok a delivered one; the
\* receiver lives until main returns
CbTrySend ==
    /\ Running /\ cb_pc = "send"
    /\ IF m_notify >= ChanCap
       THEN /\ m_counter' = [m_counter EXCEPT !.dropped = @ + 1]
            /\ UNCHANGED m_notify
       ELSE /\ m_notify' = m_notify + 1
            /\ m_counter' = [m_counter EXCEPT !.not_dropped = @ + 1]
    /\ cb_pc' = "idle"
    /\ UNCHANGED << main_vars, io_vars, m_frame, m_frame_lock, m_width,
                    m_renderer_lock, cb_count, check_width, m_exit, m_hist >>
    /\ UNCHANGED others_m

MainThread ==
    \/ CreateSink \/ ClearScreen \/ BuildPipeline \/ SetHandler
    \/ SetCallbacks \/ SetStatePlaying \/ WaitState \/ CreateDiffer
    \/ RecvTimeout \/ LockRenderer \/ LockFrame \/ RenderIO \/ ReturnOk

Callback == CbPull \/ CbLockFrame \/ CbWrite \/ CbCheckWidth \/ CbTrySend

NextMain ==
    \/ CreateSink
    \/ ClearScreen
    \/ BuildPipeline
    \/ SetHandler
    \/ SetCallbacks
    \/ SetStatePlaying
    \/ WaitState
    \/ CreateDiffer
    \/ RecvTimeout
    \/ LockRenderer
    \/ LockFrame
    \/ RenderIO
    \/ ReturnOk
    \/ Interrupt
    \/ CbPull
    \/ CbLockFrame
    \/ CbWrite
    \/ CbCheckWidth
    \/ CbTrySend

SpecMain == InitMain /\ [][NextMain]_vars

\* the main thread and the streaming thread each keep running while they
\* can take a step; an interrupt need not come
SpecMainFair == SpecMain /\ WF_vars(MainThread) /\ WF_vars(Callback)

Emitted(tok) ==
    \/ \E i \in 1..Len(stdout_s) : stdout_s[i] = tok
    \/ \E i \in 1..Len(stderr_s) : stderr_s[i] = tok

\* C14: once the cursor is hidden, every way the process ends (normal
\* completion, error return, the exit on a pipeline start failure, the
\* interrupt handler) has emitted the show-cursor sequence.
C14_ShowOnEveryExit ==
    m_exit \in {"ok", "err", "exit_set_state", "exit_ctrlc"} => Emitted(ShowSeq)

\* C16: the main thread never holds the frame mutex while render I/O runs,
\* on the default path and on the kitty path.
C16_FrameLockFreeDuringRender ==
    m_pc = "render" => m_frame_lock # "main"

\* the streaming thread has stopped delivering
Stopped ==
    \/ cb_pc = "stopped"
    \/ cb_pc = "idle" /\ cb_count = MaxMainFrames

LoopExited == m_pc \in {"after_loop", "ended"}

\* C18: once delivery stops the render loop ends; the loop ends at the first
\* receive that times out, nothing is rendered after it, and the timeout is
\* not turned into an error return.
C18_TimeoutEndsLoop ==
    /\ [](/\ m_hist.timeouts <= 1
          /\ m_hist.late_renders = 0
          /\ m_hist.timeouts = 1 => (LoopExited /\ m_exit # "err"))
    /\ (Stopped ~> LoopExited)
C18_Witness ==
    /\ m_hist.timeouts = 1
    /\ m_hist.renders >= 1
    /\ cb_count = MaxMainFrames
    /\ m_exit = "ok"
    /\ Emitted(StatsText)

\* the steps of the render loop
ConsumerStep ==
    \/ Subscribe
    \/ Receive
    \/ ReceiveTimeout
    \/ Frame
    \/ VerifyAndConsume
    \/ Render

\* the render thread keeps running while it can take a step
SpecFair == Init /\ [][Next]_vars /\ WF_vars(ConsumerStep)

\* C28: the callback holds no frame lock while it is in the channel sends,
\* the consumer can always step while the callback waits in the Initialize
\* send, and every such wait ends.
C28_NoDeadlock ==
    /\ [](/\ pc_p \in {"send_init", "try_send"} => mutex # "producer"
          /\ BlockedOnChannel => ENABLED ConsumerStep)
    /\ (BlockedOnChannel ~> ~BlockedOnChannel)
C28_Witness ==
    /\ BlockedOnChannel
    /\ pc_c = "verify"
    /\ mutex = "consumer"

\* C29: the first message a subscriber receives is Initialize, for streams
\* whose first frame has a non-zero width or height.
C29_InitializeFirst ==
    /\ hist.first_recv \in {"none", "Initialize"}
    /\ pc_c \in {"frame", "verify", "render"} => hist.init_recv >= 1
C29_Witness ==
    /\ hist.first_recv = "Initialize"
    /\ pc_c = "frame"
    /\ hist.init_recv = 1

\* C30: while the consumer has not received since the callback began, the
\* Initialize the callback sent still fills the channel when FrameReady is
\* attempted, the frame is counted dropped and no FrameReady is enqueued.
C30_FirstFrameDropped ==
    (hist.sent_init /\ hist.win_clean /\ rx_alive) =>
       /\ pc_p \in {"try_send", "count_dropped", "idle"}
       /\ IsFull(chan)
       /\ \A i \in 1..Len(chan) : chan[i].type = "Initialize"
       /\ pc_p = "idle" => hist.last_dropped = sample.seq
C30_Witness ==
    /\ hist.sent_init /\ hist.win_clean /\ rx_alive
    /\ pc_p = "idle"
    /\ hist.last_dropped = sample.seq
    /\ sample.seq >= 3
    /\ counter.not_dropped >= 1

\* ------------------------------------------------- claims on render_frame
\* no colour activation written yet in this frame
NoActivation == << -2, -2, -2 >>

\* every glyph of toks from position k on is written while the colour last
\* activated is color
RECURSIVE GlyphsIn(_, _, _, _)
GlyphsIn(toks, k, active, color) ==
    IF k > Len(toks) THEN TRUE
    ELSE IF toks[k].t = "color"
    THEN GlyphsIn(toks, k + 1, toks[k].color, color)
    ELSE (toks[k].t = "glyph" => active = color)
         /\ GlyphsIn(toks, k + 1, active, color)

\* the colour last activated once toks are written
RECURSIVE ActiveAfter(_, _, _)
ActiveAfter(toks, k, active) ==
    IF k > Len(toks) THEN active
    ELSE ActiveAfter(toks, k + 1,
                     IF toks[k].t = "color" THEN toks[k].color ELSE active)

RECURSIVE RunsColoured(_, _)
RunsColoured(k, active) ==
    IF k > Len(strides) THEN TRUE
    ELSE /\ GlyphsIn(strides[k], 1, active, differ[k].color)
         /\ RunsColoured(k + 1, ActiveAfter(strides[k], 1, active))

\* C21: in every frame each glyph is written while the colour last activated
\* in that frame is the colour of its run; the first run of a frame always
\* gets an activation.
C21_GlyphsInRunColour ==
    r_pc = "rendered" =>
       /\ Len(strides) = Len(differ)
       /\ RunsColoured(1, NoActivation)

CursorsOf(toks) == { k \in 1..Len(toks) : toks[k].t = "cursor" }

\* C22: a run gets a cursor escape exactly when it is the first run of the
\* frame or does not start where the previous run ended; the escape comes
\* first and carries start / width and start % width.
C22_CursorEscapes ==
    r_pc = "rendered" =>
      /\ Len(strides) = Len(differ)
      /\ \A k \in 1..Len(differ) :
           IF k = 1 \/ differ[k].start # differ[k - 1].end
           THEN /\ CursorsOf(strides[k]) = {1}
                /\ strides[k][1] = CursorTo(differ[k].start \div r_dims[1],
                                            differ[k].start % r_dims[1])
           ELSE CursorsOf(strides[k]) = {}
C22_Witness ==
    /\ r_pc = "rendered"
    /\ Len(differ) = 3
    /\ differ[1].start = 0
    /\ differ[2].start = differ[1].end
    /\ differ[3].start # differ[2].end
    /\ Written("cursor") = 2

IsInk(tok) == tok.t \in {"glyph", "nl"}
\* row starts among the indices s+1 .. i
Breaks(s, i, width) == Cardinality({ m \in (s + 1)..i : m % width = 0 })

\* C23: a run [s, e) writes its glyph once per index and a newline exactly
\* before each index that starts a row, the run's first index excepted.
C23_NewlinesInRun ==
    r_pc = "rendered" =>
      \A k \in 1..Len(differ) :
        LET g == SelectSeq(strides[k], IsInk)
            s0 == differ[k].start
            e0 == differ[k].end
            w == r_dims[1]
        IN  /\ Len(g) = (e0 - s0) + Breaks(s0, e0 - 1, w)
            /\ \A i \in s0..(e0 - 1) :
                 /\ g[(i - s0) + Breaks(s0, i, w) + 1] = Glyph(differ[k].chr)
                 /\ (i % w = 0 /\ i # s0) =>
                       g[(i - s0) + Breaks(s0, i, w)] = Newline
C23_Witness ==
    /\ r_pc = "rendered"
    /\ r_dims = <<2, 2>>
    /\ Len(differ) = 1
    /\ differ[1].start = 1
    /\ differ[1].end = 4
    /\ Written("nl") = 1
    /\ Written("glyph") = 3

\* C25: both grids always have width*height cells; after a consume the
\* previous grid is the grid that was current before the call and the
\* current grid is the transform of the input.
C25_DoubleBuffering ==
    /\ Len(color_buf) = r_dims[1] * r_dims[2]
    /\ Len(prev_buf) = r_dims[1] * r_dims[2]
    /\ r_pc \in {"consumed", "rendered"} =>
         /\ prev_buf = r_hist.before
         /\ \A i \in 1..Len(color_buf) :
              color_buf[i] = ConsumePixel(r_hist.input[i])
C25_Witness ==
    /\ r_pc = "consumed"
    /\ r_dims = <<2, 2>>
    /\ prev_buf[1][4] # 0
    /\ prev_buf # color_buf
    /\ r_hist.prev_input # r_hist.input

\* C26: for every pixel the luminance computed in u32 fits a byte, and the
\* glyph index luminance >> 2 is an index of the gradient ramp.
C26_LuminanceInRange ==
    r_pc \in {"consumed", "rendered"} =>
      \A i \in 1..Len(r_hist.input) :
        LET p == r_hist.input[i] IN
        /\ LuminanceU32(p) \in 0..255
        /\ luminance(p) = LuminanceU32(p)
        /\ (luminance(p) \div 4) + 1 \in 1..Len(ASCII_CHARS)
        /\ color_buf[i][4] = ASCII_CHARS[(luminance(p) \div 4) + 1]
C26_Witness ==
    /\ r_pc = "consumed"
    /\ r_dims = <<1, 1>>
    /\ r_hist.input[1] = <<255, 255, 255, 0>>
    /\ color_buf[1][4] = 36

\* C27: after every consume followed by render_frame the terminal's screen
\* shows the current grid, token and glyph, at every cell.
C27_ScreenShowsGrid ==
    r_pc \in {"new", "rendered"} =>
      /\ Len(term.screen) = Len(color_buf)
      /\ \A i \in 1..Len(color_buf) : term.screen[i] = CellOf(color_buf[i])
C27_Witness ==
    /\ r_pc = "rendered"
    /\ r_dims = <<2, 2>>
    /\ prev_buf[1][4] # 0
    /\ Len(differ) = 2
    /\ Written("nl") = 1
    /\ term.screen[1] = << <<0, 0, 0>>, 32 >>
    /\ term.screen[4] = << <<255, 0, 0>>, 41 >>

\* ---------------------------------------- DefaultRenderer<BackgroundRgb>
\* RGBx pixels whose fourth byte varies
BgPixels == { <<0, 0, 0, 0>>, <<255, 0, 0, 0>>, <<255, 0, 0, 255>> }
BgFrames(dims) == [1..(dims[1] * dims[2]) -> BgPixels]

\* self.color_buf.copy_from_slice(data): the four bytes of each pixel
CopyFromSlice(pixels) == pixels

\* the glyph render_frame of impl_bg hands to render_stride: &b' '
BgRuns(runs) == [k \in 1..Len(runs) |-> [runs[k] EXCEPT !.chr = 32]]

\* DefaultRenderer::consume (impl_bg): swap the grids, copy the pixels
ConsumeBg ==
    /\ r_pc \in {"new", "rendered"}
    /\ \E pixels \in BgFrames(r_dims) :
         LET sw == Swapped(color_buf, prev_buf) IN
         /\ prev_buf' = sw[2]
         /\ color_buf' = CopyFromSlice(pixels)
         /\ r_hist' = [before |-> color_buf, input |-> pixels,
                       prev_input |-> r_hist.input]
    /\ r_pc' = "consumed"
    /\ UNCHANGED << r_dims, differ, output, strides, term >>
    /\ UNCHANGED others_r

\* DefaultRenderer::render_frame (impl_bg): assign_diff, then one
\* render_stride per run with a space for glyph, then flush
RenderFrameBg ==
    /\ r_pc = "consumed"
    /\ LET runs == Extend(<< >>, color_buf, prev_buf, 0).data IN
         /\ differ' = runs
         /\ output' = RenderRuns(BgRuns(runs), 0, 0, DefaultColor, r_dims[1])
         /\ strides' = Strides(BgRuns(runs), 0, 0, DefaultColor, r_dims[1])
         /\ term' = TermApply(term, output', 1, r_dims[1])
    /\ r_pc' = "rendered"
    /\ UNCHANGED << r_dims, color_buf, prev_buf, r_hist >>
    /\ UNCHANGED others_r

NextRenderBg ==
    \/ ConsumeBg
    \/ RenderFrameBg

SpecRenderBg == InitRender /\ [][NextRenderBg]_vars

RgbOf(pixel) == << pixel[1], pixel[2], pixel[3] >>

\* C24: the background variants store each pixel's RGB with the glyph byte
\* set to a space, so two frames with the same RGB everywhere give an empty
\* diff whatever the pixels' fourth byte.
C24_BgDiffIgnoresFourthByte ==
    /\ r_pc \in {"consumed", "rendered"} =>
         \A i \in 1..Len(color_buf) :
            color_buf[i] = << r_hist.input[i][1], r_hist.input[i][2],
                              r_hist.input[i][3], 32 >>
    /\ (/\ r_pc = "rendered"
        /\ Len(r_hist.prev_input) = Len(r_hist.input)
        /\ \A i \in 1..Len(r_hist.input) :
              RgbOf(r_hist.input[i]) = RgbOf(r_hist.prev_input[i]))
         => differ = << >>

\* ------------------------------------------------- Renderer of main.rs
\* normalize_luminance: inv_lum = 1u32 << 8 / (luminance as u32 + 1), each
\* channel ((c << 8) * inv_lum) >> 8, capped at 255
NormalizeChannel(c, lum) ==
    LET inv_lum == 2 ^ (8 \div (lum + 1))
        v == ((c * 256) * inv_lum) \div 256
    IN  IF v > 255 THEN 255 ELSE v
normalize_luminance(pixel, lum) ==
    << NormalizeChannel(pixel[1], lum), NormalizeChannel(pixel[2], lum),
       NormalizeChannel(pixel[3], lum), pixel[4] >>

\* the body of process_frame's loop for one pixel
ProcessPixel(pixel) ==
    LET lum == luminance(pixel)
        index == lum \div 4
    IN  normalize_luminance(<< pixel[1], pixel[2], pixel[3],
                               ASCII_CHARS[index + 1] >>, lum)

\* for i in pos.clone(): at col == 0 a newline and the colour escape, then
\* the glyph
RECURSIVE MainWriteGlyphs(_, _, _, _)
MainWriteGlyphs(i, end, run, width) ==
    IF i >= end THEN << >>
    ELSE (IF i % width = 0
          THEN << Newline, Activate(run.color) >> ELSE << >>)
         \o << Glyph(run.chr) >>
         \o MainWriteGlyphs(i + 1, end, run, width)

\* the body of render_frame's loop for one run
MainStride(run, prev_end, prev_color, width) ==
    (IF run.start # prev_end \/ prev_end = 0
     THEN << CursorTo(run.start \div width, run.start % width) >>
     ELSE << >>)
    \o (IF run.color # prev_color
        THEN << Activate(run.color) >>
        ELSE << >>)
    \o MainWriteGlyphs(run.start, run.end, run, width)

RECURSIVE MainStrides(_, _, _, _, _)
MainStrides(runs, i, prev_end, prev_color, width) ==
    IF i >= Len(runs) THEN << >>
    ELSE LET run == runs[i + 1] IN
         << MainStride(run, prev_end, prev_color, width) >>
         \o MainStrides(runs, i + 1, run.end, run.color, width)

RECURSIVE Flatten(_)
Flatten(seqs) ==
    IF seqs = << >> THEN << >> ELSE Head(seqs) \o Flatten(Tail(seqs))

\* Renderer::process_frame: swap the grids, transform the pixels
ProcessFrame ==
    /\ r_pc \in {"new", "rendered"}
    /\ \E pixels \in RFrames(r_dims) :
         LET sw == Swapped(color_buf, prev_buf) IN
         /\ prev_buf' = sw[2]
         /\ color_buf' = [i \in 1..Len(sw[1]) |->
                             IF i <= Len(pixels) THEN ProcessPixel(pixels[i])
                             ELSE sw[1][i]]
         /\ r_hist' = [before |-> color_buf, input |-> pixels,
                       prev_input |-> r_hist.input]
    /\ r_pc' = "consumed"
    /\ UNCHANGED << r_dims, differ, output, strides, term >>
    /\ UNCHANGED others_r

\* Renderer::render_frame of main.rs: assign_diff with its sort, the loop
\* over differ.data(), then flush
RenderFrameMain ==
    /\ r_pc = "consumed"
    /\ LET runs == SortUnstableBy(Extend(<< >>, color_buf, prev_buf, 0).data, 2)
       IN /\ differ' = runs
          /\ strides' = MainStrides(runs, 0, 0, DefaultColor, r_dims[1])
          /\ output' = Flatten(strides')
          /\ term' = TermApply(term, output', 1, r_dims[1])
    /\ r_pc' = "rendered"
    /\ UNCHANGED << r_dims, color_buf, prev_buf, r_hist >>
    /\ UNCHANGED others_r

NextRenderMain ==
    \/ ProcessFrame
    \/ RenderFrameMain

SpecRenderMain == InitRender /\ [][NextRenderMain]_vars

Spec == Init /\ [][Next]_vars
====
